---- MODULE Spec2Model ----
(***************************************************************************)
(* xarfuse: resolution of the per-user mount point of a XAR archive and    *)
(* the idempotent mount orchestration (src/main.rs, src/mount.rs,          *)
(* src/xar.rs).  Several independent invocations of `xarfuse mount` run    *)
(* against one shared filesystem and one shared mount table; every system  *)
(* call of an invocation is one atomic step.                               *)
(***************************************************************************)
EXTENDS Integers, Sequences, FiniteSets, TLC

VARIABLES
    platform,    \* build target: "linux" or "macos" (cfg(target_os))
    archive,     \* the archive file on disk (or its absence)
    fsmode,      \* st_mode of the candidate mount roots, NoEnt when metadata fails
    seed,        \* XAR_MOUNT_SEED: <<>> when unset, <<s>> when set to s
    nsino,       \* inode of /proc/self/ns/mnt: <<>> when not statable, <<n>> else
    dirs,        \* the user directory and the mount directory
    lockfile,    \* the lockfile lockfile.<mount-dir-name>
    mtab,        \* stack of filesystem-type tags mounted on the mount path
    pending,     \* helper mounts the kernel has not registered yet
    faulty,      \* whether statfs may fail on an existing directory in this run
    umask,       \* file mode creation mask of the invocations' processes
    fs0,         \* the directories, lockfile and mount table the run started with
    unmounts,    \* mounts detached so far by the helper's idle timeout / a reaper
    pc,          \* position of each invocation
    printOnly,   \* the -n flag of each invocation
    header,      \* XarHeader parsed by each invocation
    mountRoot,   \* mount root chosen by find_mount_root for each invocation
    path,        \* mount path resolved by each invocation
    lockFd,      \* whether the invocation holds the lockfile descriptor
    preMounted,  \* answer of the pre-spawn is_mounted query
    preStat,     \* what statfs returned to the pre-spawn is_mounted query
    helper,      \* the invocation's child process squashfuse_ll
    elapsed,     \* start.elapsed() of the poll loop, microseconds
    sleeps,      \* sleeps of the poll loop, with what they observed
    touches,     \* successful touch_lock calls of the invocation
    printed,     \* the lines the invocation wrote to stdout
    ops,         \* externally visible operations of the invocation, in order
    result       \* Result<(), failure::Error> of run()

vars == <<platform, archive, fsmode, seed, nsino, faulty, umask, dirs, lockfile, mtab, pending,
          fs0, unmounts, pc, printOnly, header, mountRoot, path, lockFd, preMounted,
          preStat, helper, elapsed, sleeps, touches, printed, ops, result>>

envVars == <<platform, archive, fsmode, seed, nsino, faulty, umask, fs0>>

------------------------------------------------------------------------------
(* Bounds of the model *)

\* exact 100-microsecond sleeps explored per invocation before it oversleeps
MaxShortSleeps == 2
\* mounts the environment detaches during one run
MaxUnmounts == 1

\* the concurrent invocations
Procs == {1, 2}

------------------------------------------------------------------------------
(* Program constants *)

\* let timeout = Duration::from_secs(9), in microseconds
Timeout == 9000000
\* let sleep = Duration::from_micros(100)
Sleep == 100
\* format!("timeout={}", 870)
HelperTimeout == 870
\* the permission mask 0o07777 applied to st_mode, as a modulus
PermMask == 4096
\* 0o01777: sticky + rwxrwxrwx
StickyWorld == 1023
\* S_IRWXU | S_IRGRP | S_IXGRP | S_IROTH | S_IXOTH = 0o755
DirMode == 493
\* S_IRUSR | S_IWUSR = 0o600
LockMode == 384

DEFAULT_MOUNT_ROOTS == << <<"/", "mnt", "/", "xarfuse">>, <<"/", "dev", "/", "shm">> >>

\* fs::metadata failed
NoEnt == 0 - 1
\* geteuid() of the invocations
Uids == {1000}
Euid == CHOOSE u \in Uids : TRUE

------------------------------------------------------------------------------
(* Strings are sequences of tokens; "/" is always a token of its own. *)

DigitChars == <<"0", "1", "2", "3", "4", "5", "6", "7", "8", "9">>

\* format!("{}", n) of an unsigned integer
RECURSIVE Dec(_)
Dec(n) == IF n < 10 THEN <<DigitChars[n + 1]>>
          ELSE Dec(n \div 10) \o <<DigitChars[(n % 10) + 1]>>

Contains(s, c) == \E i \in 1..Len(s) : s[i] = c

\* a & b of two non-negative integers
RECURSIVE BitAnd(_, _)
BitAnd(a, b) == IF a = 0 \/ b = 0 THEN 0
                ELSE (a % 2) * (b % 2) + 2 * BitAnd(a \div 2, b \div 2)

\* the permission bits mkdir(2) and open(2) give a new file: mode & ~umask & 0o777
ApplyUmask(mode, um) == BitAnd(mode, 511 - BitAnd(um, 511))

\* PathBuf::push: an absolute component replaces the path; a separator is added
\* unless the path is empty or ends with one
Push(base, comp) ==
    IF Len(comp) > 0 /\ comp[1] = "/" THEN comp
    ELSE IF Len(base) = 0 \/ base[Len(base)] = "/" THEN base \o comp
    ELSE base \o <<"/">> \o comp

\* index of the last "/" of a path, 0 when there is none
RECURSIVE LastSlash(_, _)
LastSlash(p, i) == IF i = 0 THEN 0 ELSE IF p[i] = "/" THEN i ELSE LastSlash(p, i - 1)

\* std::path::Components: a path with a root starts with the separator; a relative
\* path keeps a leading "." as its first component (no other "." is a component)
HasRoot(p) == Len(p) > 0 /\ p[1] = "/"
InclCurDir(p) == ~HasRoot(p) /\ Len(p) > 0 /\ p[1] = "." /\ (Len(p) = 1 \/ p[2] = "/")
LenBeforeBody(p) == (IF HasRoot(p) THEN 1 ELSE 0) + (IF InclCurDir(p) THEN 1 ELSE 0)

\* Components::parse_next_component_back: the text after the last separator of the
\* body, and the path without it and without that separator
LastComp(p) ==
    LET b == LenBeforeBody(p)
        k == LastSlash(p, Len(p))
    IN IF k > b THEN [name |-> SubSeq(p, k + 1, Len(p)), rest |-> SubSeq(p, 1, k - 1)]
       ELSE [name |-> SubSeq(p, b + 1, Len(p)), rest |-> SubSeq(p, 1, b)]

\* Components::trim_right: trailing separators and "." components are dropped
RECURSIVE TrimRight(_)
TrimRight(p) ==
    IF Len(p) > LenBeforeBody(p) /\ LastComp(p).name \in {<<>>, <<".">>}
    THEN TrimRight(LastComp(p).rest)
    ELSE p

\* the component ".."
IsParentDir(name) == name = <<"..">> \/ name = <<".", ".">>

\* Path::parent, an Option (<<>> is None, <<x>> is Some(x)): the path without its
\* last component, which is a name, ".." or a leading "."; None for the root and
\* for the empty path
Parent(p) ==
    LET q == TrimRight(p) IN
    IF Len(q) > LenBeforeBody(q) THEN <<TrimRight(LastComp(q).rest)>>
    ELSE IF HasRoot(q) \/ q = <<>> THEN <<>>
    ELSE << <<>> >>

\* Path::file_name, an Option: the last component when it is a name; None for the
\* root, for the empty path, for "." and for a path that ends with ".."
FileName(p) ==
    LET q == TrimRight(p) IN
    IF Len(q) > LenBeforeBody(q) /\ ~IsParentDir(LastComp(q).name)
    THEN <<LastComp(q).name>>
    ELSE <<>>

------------------------------------------------------------------------------
(* Results *)

NoResult == [tag |-> "none", kind |-> "none", n |-> 0]
Ok == [tag |-> "ok", kind |-> "none", n |-> 0]
Err(kind, n) == [tag |-> "err", kind |-> kind, n |-> n]
\* a panic of `.unwrap()` on None: the process aborts
Panicked == [tag |-> "panic", kind |-> "unwrap", n |-> 0]

NoPath == <<>>

------------------------------------------------------------------------------
(* Path resolution: find_mount_root, get_user_basedir, get_mount_dir *)

ModeOf(modes, root) == IF root \in DOMAIN modes THEN modes[root] ELSE NoEnt

\* (permissions.mode() & 0o07777) == 0o01777
ModeAccepted(m) == m # NoEnt /\ (m % PermMask) = StickyWorld

RECURSIVE FirstDefault(_, _)
FirstDefault(modes, i) ==
    IF i > Len(DEFAULT_MOUNT_ROOTS) THEN [ok |-> FALSE, root |-> NoPath, err |-> "config"]
    ELSE IF ModeAccepted(ModeOf(modes, DEFAULT_MOUNT_ROOTS[i]))
         THEN [ok |-> TRUE, root |-> DEFAULT_MOUNT_ROOTS[i], err |-> "none"]
         ELSE FirstDefault(modes, i + 1)

\* mutant of find_mount_root: a header root with the wrong mode falls back to the
\* default list
find_mount_root_Fallback(mount_root, modes) ==
    IF mount_root # <<>> /\ ModeAccepted(ModeOf(modes, mount_root[1]))
    THEN [ok |-> TRUE, root |-> mount_root[1], err |-> "none"]
    ELSE FirstDefault(modes, 1)

find_mount_root(mount_root, modes) ==
    IF mount_root # <<>>
    THEN LET root == mount_root[1] IN
         IF ModeOf(modes, root) = NoEnt
         THEN [ok |-> FALSE, root |-> NoPath, err |-> "io"]
         ELSE IF ~ModeAccepted(ModeOf(modes, root))
              THEN [ok |-> FALSE, root |-> NoPath, err |-> "config"]
              ELSE [ok |-> TRUE, root |-> root, err |-> "none"]
    ELSE FirstDefault(modes, 1)

get_user_basedir(uid) == <<"uid-">> \o Dec(uid)

\* mutant of get_mount_dir: the seed is not searched for a path separator
get_mount_dir_AnySeed(uuid, sd, ns) ==
    LET withSeed == IF sd # <<>> /\ sd[1] # <<>>
                    THEN uuid \o <<"-seed-">> \o sd[1]
                    ELSE uuid
    IN IF ns # <<>> THEN withSeed \o <<"-ns-">> \o Dec(ns[1]) ELSE withSeed

get_mount_dir(uuid, sd, ns) ==
    LET withSeed == IF sd # <<>> /\ sd[1] # <<>> /\ ~Contains(sd[1], "/")
                    THEN uuid \o <<"-seed-">> \o sd[1]
                    ELSE uuid
    IN IF ns # <<>> THEN withSeed \o <<"-ns-">> \o Dec(ns[1]) ELSE withSeed

find_mount(hdr, modes, sd, ns, uid) ==
    LET r == find_mount_root(hdr.mount_root, modes) IN
    IF ~r.ok THEN [ok |-> FALSE, root |-> NoPath, path |-> NoPath, err |-> r.err]
    ELSE [ok |-> TRUE,
          root |-> r.root,
          path |-> Push(Push(r.root, get_user_basedir(uid)),
                        get_mount_dir(hdr.uuid, sd, ns)),
          err |-> "none"]

\* lock_directory: the lockfile's path, an Option: None when file_name() or
\* parent() is None and its `.unwrap()` panics
LockPath(mount) ==
    IF FileName(mount) = <<>> \/ Parent(mount) = <<>> THEN <<>>
    ELSE <<Push(Parent(mount)[1], <<"lockfile.">> \o FileName(mount)[1])>>

------------------------------------------------------------------------------
(* Header parsing: Xar::from_file *)

NoHeader == [offset |-> 0, uuid |-> <<>>, mount_root |-> <<>>]

\* bytes of the lines 1..i
RECURSIVE BytesThrough(_, _)
BytesThrough(lines, i) == IF i = 0 THEN 0 ELSE lines[i].len + BytesThrough(lines, i - 1)

\* the loop over reader.read_line: it ends at the end of the stream, at a line that
\* is not UTF-8 (read_line fails) or at the first line starting with #xar_stop
RECURSIVE ScanLines(_, _)
ScanLines(lines, i) ==
    IF i > Len(lines) THEN [end |-> "eof", at |-> Len(lines)]
    ELSE IF ~lines[i].utf8 THEN [end |-> "utf8", at |-> i]
    ELSE IF lines[i].stop THEN [end |-> "stop", at |-> i]
    ELSE ScanLines(lines, i + 1)

\* mutant of from_file: the header's offset is set to the position after the
\* #xar_stop line
from_file_SeekOffset(a) ==
    IF ~a.exists THEN [ok |-> FALSE, header |-> NoHeader, read |-> 0, err |-> "io"]
    ELSE LET s == ScanLines(a.lines, 1)
             read == BytesThrough(a.lines, s.at)
         IN
         IF s.end = "eof"
         THEN [ok |-> FALSE, header |-> NoHeader, read |-> read, err |-> "header"]
         ELSE IF s.end = "utf8"
         THEN [ok |-> FALSE, header |-> NoHeader, read |-> read, err |-> "utf8"]
         ELSE IF ~a.toml_ok
         THEN [ok |-> FALSE, header |-> NoHeader, read |-> read, err |-> "toml"]
         ELSE [ok |-> TRUE, header |-> [a.header EXCEPT !.offset = read], read |-> read,
               err |-> "none"]

\* read lines up to the first #xar_stop line, then parse the bytes read so far as
\* TOML: the header is what the text declares; `read` is the stream position after
\* the last line read, the length of the text parsed
from_file(a) ==
    IF ~a.exists THEN [ok |-> FALSE, header |-> NoHeader, read |-> 0, err |-> "io"]
    ELSE LET s == ScanLines(a.lines, 1)
             read == BytesThrough(a.lines, s.at)
         IN
         IF s.end = "eof"
         THEN [ok |-> FALSE, header |-> NoHeader, read |-> read, err |-> "header"]
         ELSE IF s.end = "utf8"
         THEN [ok |-> FALSE, header |-> NoHeader, read |-> read, err |-> "utf8"]
         ELSE IF ~a.toml_ok
         THEN [ok |-> FALSE, header |-> NoHeader, read |-> read, err |-> "toml"]
         ELSE [ok |-> TRUE, header |-> a.header, read |-> read, err |-> "none"]

------------------------------------------------------------------------------
(* MountState: is_mounted *)

\* filesystem-type names the macOS build accepts
MacFuseTypes == {"osxfuse", "osxfusefs"}
\* the tag the helper's mount carries in the mount table of each platform
FuseTag(plat) == IF plat = "macos" THEN MacFuseTypes ELSE {"fuse"}
HostFs(plat) == IF plat = "macos" THEN "apfs" ELSE "tmpfs"

NoStat == [ok |-> FALSE, type |-> "none"]

\* statfs(path): the type of the filesystem backing the path, or an error
Statfs(plat, d, mt) ==
    IF ~d["mount"].exists THEN NoStat
    ELSE IF mt = <<>> THEN [ok |-> TRUE, type |-> HostFs(plat)]
    ELSE [ok |-> TRUE, type |-> mt[Len(mt)]]

\* statfs can also fail on an existing directory (EACCES, EIO, ENOTCONN of a dead
\* FUSE daemon): what one call may return
StatfsOutcomes(plat, d, mt, f) == {Statfs(plat, d, mt)} \cup (IF f THEN {NoStat} ELSE {})

\* Result<bool, failure::Error>, with the lines the call wrote to stdout
OkBool(b, out) == [ok |-> TRUE, val |-> b, out |-> out]
ErrBool == [ok |-> FALSE, val |-> FALSE, out |-> <<>>]

\* println!("{:?}", stat.filesystem_type()): the type stands for its magic number
FsTypeLine(t) == <<"FsType(", t, ")">>

\* mutant of is_mounted: the statfs error is returned to the caller (statfs(mount)?)
is_mounted_Propagate(plat, st) ==
    IF ~st.ok THEN ErrBool
    ELSE IF plat = "macos" THEN OkBool(st.type \in MacFuseTypes, <<>>)
    ELSE OkBool(FALSE, <<FsTypeLine(st.type)>>)

\* the macOS variant compares the type name; the other variant prints the type
\* and answers false
is_mounted(plat, st) ==
    IF plat = "macos"
    THEN IF st.ok THEN OkBool(st.type \in MacFuseTypes, <<>>) ELSE OkBool(FALSE, <<>>)
    ELSE IF st.ok THEN OkBool(FALSE, <<FsTypeLine(st.type)>>) ELSE OkBool(FALSE, <<>>)

\* the answer of is_mounted when statfs does not fail
IsMounted == LET r == is_mounted(platform, Statfs(platform, dirs, mtab)) IN r.ok /\ r.val

------------------------------------------------------------------------------
(* Inputs of a run *)

StickyDir == 16384 + StickyWorld   \* S_IFDIR | 0o1777
PlainDir == 16384 + 511            \* S_IFDIR | 0o0777

Uuid == <<"a", "b", "c">>

\* the declarative header of the archive, as the TOML parser returns it
HeaderDefault == [offset |-> 4096, uuid |-> Uuid, mount_root |-> <<>>]
HeaderCustom == [offset |-> 4096, uuid |-> Uuid, mount_root |-> << <<"/", "xar">> >>]

HeaderLines == <<[stop |-> FALSE, utf8 |-> TRUE, len |-> 10],
                 [stop |-> TRUE, utf8 |-> TRUE, len |-> 10]>>

Archives ==
    { [exists |-> TRUE, lines |-> HeaderLines, toml_ok |-> TRUE, header |-> HeaderDefault],
      [exists |-> TRUE, lines |-> HeaderLines, toml_ok |-> TRUE, header |-> HeaderCustom],
      [exists |-> TRUE, lines |-> <<[stop |-> FALSE, utf8 |-> TRUE, len |-> 10]>>,
       toml_ok |-> TRUE,
       header |-> HeaderDefault],
      [exists |-> FALSE, lines |-> <<>>, toml_ok |-> FALSE, header |-> NoHeader] }

\* /mnt/xarfuse is absent; /dev/shm is 01777; /xar is not 01777
ModeMaps ==
    { (DEFAULT_MOUNT_ROOTS[2] :> StickyDir) @@ (<<"/", "xar">> :> PlainDir) }

Seeds == { <<>> }
NsInos == { << 4026 >> }

\* the umask the invocations inherit: 0o022; or 0o022 or 0o077
Umasks == { 18 }
FaultUmasks == { 18, 63 }

\* errno values of a mkdir that fails on an absent directory: ENOENT, EACCES, ENOSPC
MkdirErrnos == { 2, 13, 28 }

\* ExitStatus of the helper: code() and signal()
Exited(c) == [code |-> <<c>>, signal |-> <<>>]
Signaled(s) == [code |-> <<>>, signal |-> <<s>>]
NoStatus == [code |-> <<>>, signal |-> <<>>]
Statuses == {Exited(0), Exited(1), Signaled(9)}
Success(st) == st.code = <<0>>

\* thread::sleep(d) sleeps at least d: the exact duration and one oversleep.
\* start.elapsed() advances in the sleeps only; the queries take no time.
SleepDurations == {Sleep, Timeout}

NoLockfile == [exists |-> FALSE, path |-> NoPath, mode |-> 0, mtime |-> 0]
AbsentDir == [exists |-> FALSE, mode |-> 0, chowned |-> FALSE]
NoHelper == [spawned |-> 0, state |-> "none", status |-> NoStatus, args |-> <<>>]

\* the archive path given on the command line
ArchivePath == <<"/", "srv", "/", "a.xar">>

\* squashfuse_ll -o offset=<N>,timeout=870 <archive> <mount>
HelperArgs(hdr, mount) ==
    << <<"-o", "offset=">> \o Dec(hdr.offset) \o <<",", "timeout=">> \o Dec(HelperTimeout),
       ArchivePath, mount >>
NoSleeps == [short |-> 0, last |-> 0, late |-> 0]

\* a directory made by someone else: another owner, mode 0o777
ForeignDir == [exists |-> TRUE, mode |-> 511, chowned |-> FALSE]

\* what earlier invocations left behind: nothing, the directories and the lockfile,
\* or these with the archive still mounted; or a user directory made by another user
FreshWorld == [dirs |-> [d \in {"user", "mount"} |-> AbsentDir],
               lockfile |-> NoLockfile, mtab |-> <<>>]
PreparedWorld(mount, mt) ==
    [dirs |-> [d \in {"user", "mount"} |->
                  [exists |-> TRUE, mode |-> DirMode, chowned |-> TRUE]],
     lockfile |-> [exists |-> TRUE, path |-> LockPath(mount)[1], mode |-> LockMode,
                   mtime |-> 0],
     mtab |-> mt]
ForeignWorld == [dirs |-> [d \in {"user", "mount"} |->
                              IF d = "user" THEN ForeignDir ELSE AbsentDir],
                 lockfile |-> NoLockfile, mtab |-> <<>>]
Worlds(plat, r) ==
    IF ~r.ok THEN {FreshWorld}
    ELSE {FreshWorld, ForeignWorld, PreparedWorld(r.path, <<>>)}
         \cup {PreparedWorld(r.path, <<tag>>) : tag \in FuseTag(plat)}

\* the state before run(): the inputs of the run, what earlier runs left on disk,
\* and every invocation at its start
StartWith(archives, modemaps, seeds, inos, umasks) ==
    /\ platform \in {"linux", "macos"}
    /\ umask \in umasks
    /\ archive \in archives
    /\ fsmode \in modemaps
    /\ seed \in seeds
    /\ nsino \in inos
    /\ \E w \in Worlds(platform, find_mount(archive.header, fsmode, seed, nsino, Euid)) :
          /\ dirs = w.dirs
          /\ lockfile = w.lockfile
          /\ mtab = w.mtab
          /\ fs0 = w
    /\ pending = 0
    /\ unmounts = 0
    /\ pc = [p \in Procs |-> "start"]
    /\ printOnly \in [Procs -> BOOLEAN]
    /\ header = [p \in Procs |-> NoHeader]
    /\ mountRoot = [p \in Procs |-> NoPath]
    /\ path = [p \in Procs |-> NoPath]
    /\ lockFd = [p \in Procs |-> FALSE]
    /\ preMounted = [p \in Procs |-> "unknown"]
    /\ preStat = [p \in Procs |-> NoStat]
    /\ helper = [p \in Procs |-> NoHelper]
    /\ elapsed = [p \in Procs |-> 0]
    /\ sleeps = [p \in Procs |-> NoSleeps]
    /\ touches = [p \in Procs |-> 0]
    /\ printed = [p \in Procs |-> <<>>]
    /\ ops = [p \in Procs |-> <<>>]
    /\ result = [p \in Procs |-> NoResult]

\* concurrent invocations on a healthy mount table: stat and statfs fail only for
\* a directory that does not exist
Start == StartWith(Archives, ModeMaps, Seeds, NsInos, Umasks)
Init == Start /\ faulty = FALSE

------------------------------------------------------------------------------
(* Steps of one invocation: run() in main.rs, Xar::mount in mount.rs *)

fsVars == <<dirs, lockfile, mtab, pending, unmounts>>

Goto(p, l) == pc' = [pc EXCEPT ![p] = l]
Did(p, op) == ops' = [ops EXCEPT ![p] = Append(@, op)]

\* an error returned with `?` or bail!: run() ends
Fail(p, e) ==
    /\ pc' = [pc EXCEPT ![p] = "done"]
    /\ result' = [result EXCEPT ![p] = e]

\* Xar::from_file(archive)?
FromFile(p) ==
    /\ pc[p] = "start"
    /\ LET r == from_file(archive) IN
       IF r.ok
       THEN /\ header' = [header EXCEPT ![p] = r.header]
            /\ Goto(p, "find")
            /\ UNCHANGED result
       ELSE /\ Fail(p, Err(r.err, 0))
            /\ UNCHANGED header
    /\ UNCHANGED <<envVars, mountRoot, fsVars, printOnly, path, lockFd, preMounted, preStat, helper,
                   elapsed, sleeps, touches, printed, ops>>

\* let mount = xar.find_mount()?
FindMount(p) ==
    /\ pc[p] = "find"
    /\ LET r == find_mount(header[p], fsmode, seed, nsino, Euid) IN
       IF r.ok
       THEN /\ path' = [path EXCEPT ![p] = r.path]
            /\ mountRoot' = [mountRoot EXCEPT ![p] = r.root]
            /\ Goto(p, "resolved")
            /\ UNCHANGED result
       ELSE /\ Fail(p, Err(r.err, 0))
            /\ UNCHANGED <<path, mountRoot>>
    /\ UNCHANGED <<envVars, fsVars, printOnly, header, lockFd, preMounted, preStat, helper,
                   elapsed, sleeps, touches, printed, ops>>

\* if sub_m.is_present("print_only") { println!(mount); Ok(()) }
PrintPath(p) ==
    /\ pc[p] = "resolved"
    /\ printOnly[p]
    /\ printed' = [printed EXCEPT ![p] = Append(@, path[p])]
    /\ pc' = [pc EXCEPT ![p] = "done"]
    /\ result' = [result EXCEPT ![p] = Ok]
    /\ Did(p, "print")
    /\ UNCHANGED <<envVars, mountRoot, fsVars, printOnly, header, path, lockFd, preMounted, preStat,
                   helper, elapsed, sleeps, touches>>

\* mutant of BeginMount: mount is called whatever the print_only flag says
BeginMount_IgnoreFlag(p) ==
    /\ pc[p] = "resolved"
    /\ IF Parent(path[p]) = <<>>
       THEN Fail(p, Panicked)
       ELSE Goto(p, "user_exists") /\ UNCHANGED result
    /\ UNCHANGED <<envVars, mountRoot, fsVars, printOnly, header, path, lockFd, preMounted, preStat,
                   helper, elapsed, sleeps, touches, printed, ops>>

\* else { xar.mount(mount)?; ... }: entry of Xar::mount, whose first statement is
\* let userdir = PathBuf::from(mount.parent().unwrap())
BeginMount(p) ==
    /\ pc[p] = "resolved"
    /\ ~printOnly[p]
    /\ IF Parent(path[p]) = <<>>
       THEN Fail(p, Panicked)
       ELSE Goto(p, "user_exists") /\ UNCHANGED result
    /\ UNCHANGED <<envVars, mountRoot, fsVars, printOnly, header, path, lockFd, preMounted, preStat,
                   helper, elapsed, sleeps, touches, printed, ops>>

\* Path::exists: fs::metadata(path).is_ok(). The metadata of an absent directory
\* cannot be read; nor can, at times, those of a directory under a mount whose
\* server is dead (ENOTCONN)
PathExists(d, ds, mt, f) ==
    {ds[d].exists}
        \cup (IF f /\ d = "mount" /\ ds[d].exists /\ mt # <<>> THEN {FALSE} ELSE {})

\* mutant of DirExists: an existing directory is given the mode and the owner a new
\* one would get
DirExists_Repair(p, d, here, mk, next) ==
    /\ pc[p] = here
    /\ \E e \in PathExists(d, dirs, mtab, faulty) :
         IF e
         THEN /\ dirs' = [dirs EXCEPT ![d] = [exists |-> TRUE, mode |-> DirMode,
                                              chowned |-> TRUE]]
              /\ Goto(p, next)
         ELSE /\ Goto(p, mk)
              /\ UNCHANGED dirs
    /\ UNCHANGED <<envVars, mountRoot, lockfile, mtab, pending, unmounts, printOnly, header,
                   path, lockFd, preMounted, preStat, helper, elapsed, sleeps, touches,
                   printed, ops, result>>

\* create_directory: if !dir.exists()
DirExists(p, d, here, mk, next) ==
    /\ pc[p] = here
    /\ \E e \in PathExists(d, dirs, mtab, faulty) : Goto(p, IF e THEN next ELSE mk)
    /\ UNCHANGED <<envVars, mountRoot, fsVars, printOnly, header, path, lockFd, preMounted, preStat,
                   helper, elapsed, sleeps, touches, printed, ops, result>>

\* create_directory: mkdir(dir, mode)?  EEXIST when the directory is there (made
\* by another invocation since the test, or one whose metadata could not be read);
\* on an absent directory the call makes it with mode & ~umask, or fails
Mkdir(p, d, here, next) ==
    /\ pc[p] = here
    /\ IF dirs[d].exists
       THEN /\ Fail(p, Err("io", 17))
            /\ UNCHANGED <<dirs, ops>>
       ELSE \E e \in {0} \cup MkdirErrnos :
              IF e = 0
              THEN /\ dirs' = [dirs EXCEPT ![d] = [exists |-> TRUE,
                                                   mode |-> ApplyUmask(DirMode, umask),
                                                   chowned |-> FALSE]]
                   /\ Goto(p, next)
                   /\ Did(p, "mkdir_" \o d)
                   /\ UNCHANGED result
              ELSE /\ Fail(p, Err("io", e))
                   /\ UNCHANGED <<dirs, ops>>
    /\ UNCHANGED <<envVars, mountRoot, lockfile, mtab, pending, unmounts, printOnly, header,
                   path, lockFd, preMounted, preStat, helper, elapsed, sleeps, touches, printed>>

\* create_directory: chown(dir, Some(geteuid()), Some(getegid()))?
Chown(p, d, here, next) ==
    /\ pc[p] = here
    /\ \E ok \in BOOLEAN :
         IF ok
         THEN /\ dirs' = [dirs EXCEPT ![d].chowned = TRUE]
              /\ Goto(p, next)
              /\ Did(p, "chown_" \o d)
              /\ UNCHANGED result
         ELSE /\ Fail(p, Err("io", 1))
              /\ UNCHANGED <<dirs, ops>>
    /\ UNCHANGED <<envVars, mountRoot, lockfile, mtab, pending, unmounts, printOnly, header,
                   path, lockFd, preMounted, preStat, helper, elapsed, sleeps, touches, printed>>

\* create_directory(&self.logger, &userdir)?
UserExists(p) == DirExists(p, "user", "user_exists", "user_mkdir", "lock_open")
UserMkdir(p) == Mkdir(p, "user", "user_mkdir", "user_chown")
UserChown(p) == Chown(p, "user", "user_chown", "lock_open")

\* mutant of LockDirectory: the descriptor is closed when lock_directory returns
\* (a File dropped at the end of the function)
LockDirectory_Dropped(p) ==
    /\ pc[p] = "lock_open"
    /\ \E ok \in BOOLEAN :
         IF LockPath(path[p]) = <<>>
         THEN /\ Fail(p, Panicked)
              /\ UNCHANGED <<lockfile, lockFd, ops>>
         ELSE IF ok
         THEN /\ lockfile' = IF lockfile.exists THEN lockfile
                             ELSE [exists |-> TRUE, path |-> LockPath(path[p])[1],
                                   mode |-> ApplyUmask(LockMode, umask), mtime |-> 0]
              /\ Goto(p, "mount_exists")
              /\ Did(p, "open_lock")
              /\ UNCHANGED <<result, lockFd>>
         ELSE /\ Fail(p, Err("io", 13))
              /\ UNCHANGED <<lockfile, lockFd, ops>>
    /\ UNCHANGED <<envVars, mountRoot, dirs, mtab, pending, unmounts, printOnly, header, path,
                   preMounted, preStat, helper, elapsed, sleeps, touches, printed>>

\* let lock_fd = lock_directory(&mount)?: open(lockfile, O_RDWR|O_CREAT|O_CLOEXEC, 0600)
LockDirectory(p) ==
    /\ pc[p] = "lock_open"
    /\ \E ok \in BOOLEAN :
         IF LockPath(path[p]) = <<>>
         THEN /\ Fail(p, Panicked)
              /\ UNCHANGED <<lockfile, lockFd, ops>>
         ELSE IF ok
         THEN /\ lockfile' = IF lockfile.exists THEN lockfile
                             ELSE [exists |-> TRUE, path |-> LockPath(path[p])[1],
                                   mode |-> ApplyUmask(LockMode, umask), mtime |-> 0]
              /\ lockFd' = [lockFd EXCEPT ![p] = TRUE]
              /\ Goto(p, "mount_exists")
              /\ Did(p, "open_lock")
              /\ UNCHANGED result
         ELSE /\ Fail(p, Err("io", 13))
              /\ UNCHANGED <<lockfile, lockFd, ops>>
    /\ UNCHANGED <<envVars, mountRoot, dirs, mtab, pending, unmounts, printOnly, header, path,
                   preMounted, preStat, helper, elapsed, sleeps, touches, printed>>

\* create_directory(&self.logger, &mount)?
MountExists(p) == DirExists(p, "mount", "mount_exists", "mount_mkdir", "precheck")
MountMkdir(p) == Mkdir(p, "mount", "mount_mkdir", "mount_chown")
MountChown(p) == Chown(p, "mount", "mount_chown", "precheck")

\* mutant of PreCheck: the helper is spawned whatever the check answered
PreCheck_AlwaysSpawn(p) ==
    /\ pc[p] = "precheck"
    /\ \E st \in StatfsOutcomes(platform, dirs, mtab, faulty) :
         LET r == is_mounted(platform, st) IN
         /\ printed' = [printed EXCEPT ![p] = @ \o r.out]
         /\ preStat' = [preStat EXCEPT ![p] = st]
         /\ IF ~r.ok
            THEN Fail(p, Err("statfs", 0)) /\ UNCHANGED preMounted
            ELSE /\ preMounted' = [preMounted EXCEPT ![p] = IF r.val THEN "yes" ELSE "no"]
                 /\ Goto(p, "spawn")
                 /\ UNCHANGED result
    /\ Did(p, "check")
    /\ UNCHANGED <<envVars, mountRoot, fsVars, printOnly, header, path, lockFd, helper,
                   elapsed, sleeps, touches>>

\* mutant of PreCheck: the wait for the helper is outside the branch that spawns
\* it, so a path found mounted waits for a helper that was never started
PreCheck_WaitWithoutSpawn(p) ==
    /\ pc[p] = "precheck"
    /\ \E st \in StatfsOutcomes(platform, dirs, mtab, faulty) :
         LET r == is_mounted(platform, st) IN
         /\ printed' = [printed EXCEPT ![p] = @ \o r.out]
         /\ preStat' = [preStat EXCEPT ![p] = st]
         /\ IF ~r.ok
            THEN Fail(p, Err("statfs", 0)) /\ UNCHANGED preMounted
            ELSE /\ preMounted' = [preMounted EXCEPT ![p] = IF r.val THEN "yes" ELSE "no"]
                 /\ Goto(p, IF r.val THEN "wait" ELSE "spawn")
                 /\ UNCHANGED result
    /\ Did(p, "check")
    /\ UNCHANGED <<envVars, mountRoot, fsVars, printOnly, header, path, lockFd, helper,
                   elapsed, sleeps, touches>>

\* mutant of PreCheck: a path found mounted skips the poll loop too
PreCheck_SkipPoll(p) ==
    /\ pc[p] = "precheck"
    /\ \E st \in StatfsOutcomes(platform, dirs, mtab, faulty) :
         LET r == is_mounted(platform, st) IN
         /\ printed' = [printed EXCEPT ![p] = @ \o r.out]
         /\ preStat' = [preStat EXCEPT ![p] = st]
         /\ IF ~r.ok
            THEN Fail(p, Err("statfs", 0)) /\ UNCHANGED preMounted
            ELSE /\ preMounted' = [preMounted EXCEPT ![p] = IF r.val THEN "yes" ELSE "no"]
                 /\ Goto(p, IF r.val THEN "touch" ELSE "spawn")
                 /\ UNCHANGED result
    /\ Did(p, "check")
    /\ UNCHANGED <<envVars, mountRoot, fsVars, printOnly, header, path, lockFd, helper,
                   elapsed, sleeps, touches>>

\* if !is_mounted(&mount)? { spawn ... } else { debug!("Mounted") }
PreCheck(p) ==
    /\ pc[p] = "precheck"
    /\ \E st \in StatfsOutcomes(platform, dirs, mtab, faulty) :
         LET r == is_mounted(platform, st) IN
         /\ printed' = [printed EXCEPT ![p] = @ \o r.out]
         /\ preStat' = [preStat EXCEPT ![p] = st]
         /\ IF ~r.ok
            THEN Fail(p, Err("statfs", 0)) /\ UNCHANGED preMounted
            ELSE /\ preMounted' = [preMounted EXCEPT ![p] = IF r.val THEN "yes" ELSE "no"]
                 /\ Goto(p, IF r.val THEN "poll" ELSE "spawn")
                 /\ UNCHANGED result
    /\ Did(p, "check")
    /\ UNCHANGED <<envVars, mountRoot, fsVars, printOnly, header, path, lockFd, helper,
                   elapsed, sleeps, touches>>

\* Command::new("squashfuse_ll").arg(-o...).arg(archive).arg(mount).spawn()?
Spawn(p) ==
    /\ pc[p] = "spawn"
    /\ \E ok \in BOOLEAN :
         IF ok
         THEN /\ helper' = [helper EXCEPT ![p] = [spawned |-> @.spawned + 1,
                                                  state |-> "running",
                                                  status |-> NoStatus,
                                                  args |-> HelperArgs(header[p], path[p])]]
              /\ Goto(p, "wait")
              /\ Did(p, "spawn")
              /\ UNCHANGED result
         ELSE /\ Fail(p, Err("io", 2))
              /\ UNCHANGED <<helper, ops>>
    /\ UNCHANGED <<envVars, mountRoot, fsVars, printOnly, header, path, lockFd, preMounted, preStat,
                   elapsed, sleeps, touches, printed>>

\* the helper process runs to its exit: on success its mount is attached, at once
\* or after the exit (the kernel registers it asynchronously)
HelperRun(p) ==
    /\ helper[p].state = "running"
    /\ \E st \in Statuses, now \in BOOLEAN, tag \in FuseTag(platform) :
         /\ helper' = [helper EXCEPT ![p] = [@ EXCEPT !.state = "exited", !.status = st]]
         /\ IF ~Success(st) THEN UNCHANGED <<mtab, pending>>
            ELSE IF now THEN mtab' = Append(mtab, tag) /\ UNCHANGED pending
            ELSE pending' = pending + 1 /\ UNCHANGED mtab
    /\ UNCHANGED <<envVars, mountRoot, dirs, lockfile, unmounts, pc, printOnly, header, path,
                   lockFd, preMounted, preStat, elapsed, sleeps, touches, printed, ops, result>>

\* mutant of Wait: the helper's success is taken for the mount being visible
Wait_TrustHelper(p) ==
    /\ pc[p] = "wait"
    /\ helper[p].state = "exited"
    /\ \E collected \in BOOLEAN :
         IF ~collected
         THEN Fail(p, Err("io", 10)) /\ UNCHANGED ops
         ELSE /\ LET st == helper[p].status IN
                 IF Success(st)
                 THEN Goto(p, "touch") /\ UNCHANGED result
                 ELSE IF st.code # <<>>
                      THEN Fail(p, Err("helper_exit", st.code[1]))
                      ELSE Fail(p, Err("helper_signal", st.signal[1]))
              /\ Did(p, "wait")
    /\ UNCHANGED <<envVars, mountRoot, fsVars, printOnly, header, path, lockFd, preMounted, preStat,
                   helper, elapsed, sleeps, touches, printed>>

\* mutant of Wait: a failed helper is started again
Wait_RetryOnFailure(p) ==
    /\ pc[p] = "wait"
    /\ helper[p].state = "exited"
    /\ \E collected \in BOOLEAN :
         IF ~collected
         THEN Fail(p, Err("io", 10)) /\ UNCHANGED ops
         ELSE /\ Goto(p, IF Success(helper[p].status) THEN "poll" ELSE "spawn")
              /\ Did(p, "wait")
              /\ UNCHANGED result
    /\ UNCHANGED <<envVars, mountRoot, fsVars, printOnly, header, path, lockFd, preMounted, preStat,
                   helper, elapsed, sleeps, touches, printed>>

\* mutant of Wait: the exit status is not examined
Wait_IgnoreStatus(p) ==
    /\ pc[p] = "wait"
    /\ helper[p].state = "exited"
    /\ \E collected \in BOOLEAN :
         IF ~collected
         THEN Fail(p, Err("io", 10)) /\ UNCHANGED ops
         ELSE /\ Goto(p, "poll")
              /\ Did(p, "wait")
              /\ UNCHANGED result
    /\ UNCHANGED <<envVars, mountRoot, fsVars, printOnly, header, path, lockFd, preMounted, preStat,
                   helper, elapsed, sleeps, touches, printed>>

\* let status = cmd.wait()?; if !status.success() { bail!(...) }
\* wait() returns once the helper has exited: with its status, or with ECHILD when
\* the status cannot be collected (SIGCHLD ignored by the parent, inherited)
Wait(p) ==
    /\ pc[p] = "wait"
    /\ helper[p].state = "exited"
    /\ \E collected \in BOOLEAN :
         IF ~collected
         THEN Fail(p, Err("io", 10)) /\ UNCHANGED ops
         ELSE /\ LET st == helper[p].status IN
                 IF Success(st)
                 THEN Goto(p, "poll") /\ UNCHANGED result
                 ELSE IF st.code # <<>>
                      THEN Fail(p, Err("helper_exit", st.code[1]))
                      ELSE Fail(p, Err("helper_signal", st.signal[1]))
              /\ Did(p, "wait")
    /\ UNCHANGED <<envVars, mountRoot, fsVars, printOnly, header, path, lockFd, preMounted, preStat,
                   helper, elapsed, sleeps, touches, printed>>

\* mutant of Poll: the deadline test is >= instead of >
Poll_FailAtDeadline(p) ==
    /\ pc[p] = "poll"
    /\ \E st \in StatfsOutcomes(platform, dirs, mtab, faulty) :
         LET r == is_mounted(platform, st) IN
         /\ printed' = [printed EXCEPT ![p] = @ \o r.out]
         /\ IF ~r.ok THEN Fail(p, Err("statfs", 0))
            ELSE IF r.val THEN Goto(p, "touch") /\ UNCHANGED result
            ELSE IF elapsed[p] >= Timeout
                 THEN Fail(p, Err("timeout", 0))
                 ELSE Goto(p, "sleep") /\ UNCHANGED result
         /\ Did(p, IF ~r.ok THEN "poll_err" ELSE IF r.val THEN "poll_yes" ELSE "poll_no")
    /\ UNCHANGED <<envVars, mountRoot, fsVars, printOnly, header, path, lockFd, preMounted, preStat,
                   helper, elapsed, sleeps, touches>>

\* mutant of Poll: the deadline leaves the loop (break) instead of failing
Poll_BreakOnTimeout(p) ==
    /\ pc[p] = "poll"
    /\ \E st \in StatfsOutcomes(platform, dirs, mtab, faulty) :
         LET r == is_mounted(platform, st) IN
         /\ printed' = [printed EXCEPT ![p] = @ \o r.out]
         /\ IF ~r.ok THEN Fail(p, Err("statfs", 0))
            ELSE /\ Goto(p, IF r.val \/ elapsed[p] > Timeout THEN "touch" ELSE "sleep")
                 /\ UNCHANGED result
         /\ Did(p, IF ~r.ok THEN "poll_err" ELSE IF r.val THEN "poll_yes" ELSE "poll_no")
    /\ UNCHANGED <<envVars, mountRoot, fsVars, printOnly, header, path, lockFd, preMounted, preStat,
                   helper, elapsed, sleeps, touches>>

\* while !is_mounted(&mount)? { if start.elapsed() > timeout { bail!(...) } ... }
Poll(p) ==
    /\ pc[p] = "poll"
    /\ \E st \in StatfsOutcomes(platform, dirs, mtab, faulty) :
         LET r == is_mounted(platform, st) IN
         /\ printed' = [printed EXCEPT ![p] = @ \o r.out]
         /\ IF ~r.ok THEN Fail(p, Err("statfs", 0))
            ELSE IF r.val THEN Goto(p, "touch") /\ UNCHANGED result
            ELSE IF elapsed[p] > Timeout
                 THEN Fail(p, Err("timeout", 0))
                 ELSE Goto(p, "sleep") /\ UNCHANGED result
         /\ Did(p, IF ~r.ok THEN "poll_err" ELSE IF r.val THEN "poll_yes" ELSE "poll_no")
    /\ UNCHANGED <<envVars, mountRoot, fsVars, printOnly, header, path, lockFd, preMounted, preStat,
                   helper, elapsed, sleeps, touches>>

\* thread::sleep(sleep)
SleepStep(p) ==
    /\ pc[p] = "sleep"
    /\ \E d \in SleepDurations :
         /\ d = Sleep => sleeps[p].short < MaxShortSleeps
         /\ elapsed' = [elapsed EXCEPT ![p] = @ + d]
         /\ sleeps' = [sleeps EXCEPT ![p] =
                [short |-> @.short + (IF d = Sleep THEN 1 ELSE 0),
                 last |-> d,
                 late |-> @.late + (IF elapsed[p] > Timeout THEN 1 ELSE 0)]]
    /\ Goto(p, "poll")
    /\ UNCHANGED <<envVars, mountRoot, fsVars, printOnly, header, path, lockFd, preMounted, preStat,
                   helper, touches, printed, ops, result>>

\* touch_lock(lock_fd)?; Ok(())
TouchLock(p) ==
    /\ pc[p] = "touch"
    /\ \E ok \in BOOLEAN :
         IF ok
         THEN /\ lockfile' = [lockfile EXCEPT !.mtime = @ + 1]
              /\ touches' = [touches EXCEPT ![p] = @ + 1]
              /\ pc' = [pc EXCEPT ![p] = "done"]
              /\ result' = [result EXCEPT ![p] = Ok]
              /\ Did(p, "touch")
         ELSE /\ Fail(p, Err("io", 5))
              /\ UNCHANGED <<lockfile, touches, ops>>
    /\ UNCHANGED <<envVars, mountRoot, dirs, mtab, pending, unmounts, printOnly, header, path,
                   lockFd, preMounted, preStat, helper, elapsed, sleeps, printed>>

------------------------------------------------------------------------------
(* The environment: the kernel's mount table *)

\* the kernel registers a mount whose helper has already exited
KernelAttach ==
    /\ pending > 0
    /\ \E tag \in FuseTag(platform) : mtab' = Append(mtab, tag)
    /\ pending' = pending - 1
    /\ UNCHANGED <<envVars, mountRoot, dirs, lockfile, unmounts, pc, printOnly, header, path,
                   lockFd, preMounted, preStat, helper, elapsed, sleeps, touches, printed,
                   ops, result>>

\* the helper's idle timeout (timeout=870) or an external reaper detaches a mount
Unmount ==
    /\ mtab # <<>>
    /\ unmounts < MaxUnmounts
    /\ mtab' = SubSeq(mtab, 1, Len(mtab) - 1)
    /\ unmounts' = unmounts + 1
    /\ UNCHANGED <<envVars, mountRoot, dirs, lockfile, pending, pc, printOnly, header, path,
                   lockFd, preMounted, preStat, helper, elapsed, sleeps, touches, printed,
                   ops, result>>

Step(p) ==
    \/ FromFile(p) \/ FindMount(p) \/ PrintPath(p) \/ BeginMount(p)
    \/ UserExists(p) \/ UserMkdir(p) \/ UserChown(p)
    \/ LockDirectory(p)
    \/ MountExists(p) \/ MountMkdir(p) \/ MountChown(p)
    \/ PreCheck(p) \/ Spawn(p) \/ HelperRun(p) \/ Wait(p)
    \/ Poll(p) \/ SleepStep(p) \/ TouchLock(p)

Next == (\E p \in Procs : Step(p)) \/ KernelAttach \/ Unmount

Spec == Init /\ [][Next]_vars

\* one invocation alone, with a statfs that may fail at every call
InitFaults == StartWith(Archives, ModeMaps, Seeds, NsInos, FaultUmasks) /\ faulty = TRUE
NextFaults == Step(1) \/ KernelAttach \/ Unmount
SpecFaults == InitFaults /\ [][NextFaults]_vars

\* the invocation keeps running, its helper exits and its sleeps return: a step of
\* the invocation (of its helper) that stays possible is taken; the mount table
\* changes or not as the environment likes
SpecLive == InitFaults /\ [][NextFaults]_vars /\ WF_vars(Step(1))

------------------------------------------------------------------------------
(* The second orchestrator: Xar::mount of mount/mod.rs, over Directory
   (mount/directory.rs) and Lock (mount/lock.rs) *)

\* mutant of Directory_is_mounted: the Linux variant compares the type with "fuse"
Directory_is_mounted_FuseOnLinux(plat, st) ==
    IF st.ok
    THEN OkBool(st.type \in FuseTag(plat),
                IF plat = "macos" THEN <<>> ELSE <<FsTypeLine(st.type)>>)
    ELSE OkBool(FALSE, <<>>)

\* Directory::is_mounted, both variants
Directory_is_mounted(plat, st) ==
    IF plat = "macos"
    THEN IF st.ok THEN OkBool(st.type \in {"osxfuse", "osxfusefs"}, <<>>)
         ELSE OkBool(FALSE, <<>>)
    ELSE IF st.ok THEN OkBool(FALSE, <<FsTypeLine(st.type)>>) ELSE OkBool(FALSE, <<>>)

\* Directory::from_xar: the path of the Directory
Directory_from_xar(hdr, modes, sd, ns, uid) ==
    LET r == find_mount_root(hdr.mount_root, modes) IN
    IF ~r.ok THEN [ok |-> FALSE, root |-> NoPath, path |-> NoPath, err |-> r.err]
    ELSE [ok |-> TRUE,
          root |-> r.root,
          path |-> Push(Push(r.root, get_user_basedir(uid)),
                        get_mount_dir(hdr.uuid, sd, ns)),
          err |-> "none"]

\* Lock::directory: the lockfile's path, an Option: None when file_name() or
\* parent() is None and its `.unwrap()` panics
Lock_path(mount) ==
    IF FileName(mount) = <<>> \/ Parent(mount) = <<>> THEN <<>>
    ELSE <<Push(Parent(mount)[1], <<"lockfile.">> \o FileName(mount)[1])>>

FromXar(p) ==
    /\ pc[p] = "find"
    /\ LET r == Directory_from_xar(header[p], fsmode, seed, nsino, Euid) IN
       IF r.ok
       THEN /\ path' = [path EXCEPT ![p] = r.path]
            /\ mountRoot' = [mountRoot EXCEPT ![p] = r.root]
            /\ Goto(p, "resolved")
            /\ UNCHANGED result
       ELSE /\ Fail(p, Err(r.err, 0))
            /\ UNCHANGED <<path, mountRoot>>
    /\ UNCHANGED <<envVars, fsVars, printOnly, header, lockFd, preMounted, preStat, helper,
                   elapsed, sleeps, touches, printed, ops>>

\* lock_and_mkdir: create_directory(&self.logger, &userdir)?
LockAndMkdir_UserExists(p) == DirExists(p, "user", "user_exists", "user_mkdir", "lock_open")
LockAndMkdir_UserMkdir(p) == Mkdir(p, "user", "user_mkdir", "user_chown")
LockAndMkdir_UserChown(p) == Chown(p, "user", "user_chown", "lock_open")

\* lock_and_mkdir: let lock = Lock::directory(&self.path)?
Lock_directory(p) ==
    /\ pc[p] = "lock_open"
    /\ \E ok \in BOOLEAN :
         IF Lock_path(path[p]) = <<>>
         THEN /\ Fail(p, Panicked)
              /\ UNCHANGED <<lockfile, lockFd, ops>>
         ELSE IF ok
         THEN /\ lockfile' = IF lockfile.exists THEN lockfile
                             ELSE [exists |-> TRUE, path |-> Lock_path(path[p])[1],
                                   mode |-> ApplyUmask(LockMode, umask), mtime |-> 0]
              /\ lockFd' = [lockFd EXCEPT ![p] = TRUE]
              /\ Goto(p, "mount_exists")
              /\ Did(p, "open_lock")
              /\ UNCHANGED result
         ELSE /\ Fail(p, Err("io", 13))
              /\ UNCHANGED <<lockfile, lockFd, ops>>
    /\ UNCHANGED <<envVars, mountRoot, dirs, mtab, pending, unmounts, printOnly, header, path,
                   preMounted, preStat, helper, elapsed, sleeps, touches, printed>>

\* lock_and_mkdir: create_directory(&self.logger, &self.path)?; Ok(lock)
LockAndMkdir_MountExists(p) ==
    DirExists(p, "mount", "mount_exists", "mount_mkdir", "precheck")
LockAndMkdir_MountMkdir(p) == Mkdir(p, "mount", "mount_mkdir", "mount_chown")
LockAndMkdir_MountChown(p) == Chown(p, "mount", "mount_chown", "precheck")

\* if !mount.is_mounted()? { spawn ... } else { debug!("Mounted") }
Mod_PreCheck(p) ==
    /\ pc[p] = "precheck"
    /\ \E st \in StatfsOutcomes(platform, dirs, mtab, faulty) :
         LET r == Directory_is_mounted(platform, st) IN
         /\ printed' = [printed EXCEPT ![p] = @ \o r.out]
         /\ preStat' = [preStat EXCEPT ![p] = st]
         /\ IF ~r.ok
            THEN Fail(p, Err("statfs", 0)) /\ UNCHANGED preMounted
            ELSE /\ preMounted' = [preMounted EXCEPT ![p] = IF r.val THEN "yes" ELSE "no"]
                 /\ Goto(p, IF r.val THEN "poll" ELSE "spawn")
                 /\ UNCHANGED result
    /\ Did(p, "check")
    /\ UNCHANGED <<envVars, mountRoot, fsVars, printOnly, header, path, lockFd, helper,
                   elapsed, sleeps, touches>>

\* Command::new("squashfuse_ll").arg(-o...).arg(archive).arg(&mount.path).spawn()?
Mod_Spawn(p) ==
    /\ pc[p] = "spawn"
    /\ \E ok \in BOOLEAN :
         IF ok
         THEN /\ helper' = [helper EXCEPT ![p] =
                    [spawned |-> @.spawned + 1,
                     state |-> "running",
                     status |-> NoStatus,
                     args |-> << <<"-o", "offset=">> \o Dec(header[p].offset)
                                     \o <<",", "timeout=">> \o Dec(HelperTimeout),
                                 ArchivePath, path[p] >>]]
              /\ Goto(p, "wait")
              /\ Did(p, "spawn")
              /\ UNCHANGED result
         ELSE /\ Fail(p, Err("io", 2))
              /\ UNCHANGED <<helper, ops>>
    /\ UNCHANGED <<envVars, mountRoot, fsVars, printOnly, header, path, lockFd, preMounted,
                   preStat, elapsed, sleeps, touches, printed>>

\* let status = cmd.wait()?; if !status.success() { bail!(...) }
\* wait() returns once the helper has exited: with its status, or with ECHILD when
\* the status cannot be collected (SIGCHLD ignored by the parent, inherited)
Mod_Wait(p) ==
    /\ pc[p] = "wait"
    /\ helper[p].state = "exited"
    /\ \E collected \in BOOLEAN :
         IF ~collected
         THEN Fail(p, Err("io", 10)) /\ UNCHANGED ops
         ELSE /\ LET st == helper[p].status IN
                 IF Success(st)
                 THEN Goto(p, "poll") /\ UNCHANGED result
                 ELSE IF st.code # <<>>
                      THEN Fail(p, Err("helper_exit", st.code[1]))
                      ELSE Fail(p, Err("helper_signal", st.signal[1]))
              /\ Did(p, "wait")
    /\ UNCHANGED <<envVars, mountRoot, fsVars, printOnly, header, path, lockFd, preMounted,
                   preStat, helper, elapsed, sleeps, touches, printed>>

\* while !mount.is_mounted()? { if start.elapsed() > timeout { bail!(...) } ... }
Mod_Poll(p) ==
    /\ pc[p] = "poll"
    /\ \E st \in StatfsOutcomes(platform, dirs, mtab, faulty) :
         LET r == Directory_is_mounted(platform, st) IN
         /\ printed' = [printed EXCEPT ![p] = @ \o r.out]
         /\ IF ~r.ok THEN Fail(p, Err("statfs", 0))
            ELSE IF r.val THEN Goto(p, "touch") /\ UNCHANGED result
            ELSE IF elapsed[p] > Timeout
                 THEN Fail(p, Err("timeout", 0))
                 ELSE Goto(p, "sleep") /\ UNCHANGED result
         /\ Did(p, IF ~r.ok THEN "poll_err" ELSE IF r.val THEN "poll_yes" ELSE "poll_no")
    /\ UNCHANGED <<envVars, mountRoot, fsVars, printOnly, header, path, lockFd, preMounted,
                   preStat, helper, elapsed, sleeps, touches>>

\* thread::sleep(sleep)
Mod_SleepStep(p) ==
    /\ pc[p] = "sleep"
    /\ \E d \in SleepDurations :
         /\ d = Sleep => sleeps[p].short < MaxShortSleeps
         /\ elapsed' = [elapsed EXCEPT ![p] = @ + d]
         /\ sleeps' = [sleeps EXCEPT ![p] =
                [short |-> @.short + (IF d = Sleep THEN 1 ELSE 0),
                 last |-> d,
                 late |-> @.late + (IF elapsed[p] > Timeout THEN 1 ELSE 0)]]
    /\ Goto(p, "poll")
    /\ UNCHANGED <<envVars, mountRoot, fsVars, printOnly, header, path, lockFd, preMounted,
                   preStat, helper, touches, printed, ops, result>>

\* lock.touch()?; Ok(())
Lock_touch(p) ==
    /\ pc[p] = "touch"
    /\ \E ok \in BOOLEAN :
         IF ok
         THEN /\ lockfile' = [lockfile EXCEPT !.mtime = @ + 1]
              /\ touches' = [touches EXCEPT ![p] = @ + 1]
              /\ pc' = [pc EXCEPT ![p] = "done"]
              /\ result' = [result EXCEPT ![p] = Ok]
              /\ Did(p, "touch")
         ELSE /\ Fail(p, Err("io", 5))
              /\ UNCHANGED <<lockfile, touches, ops>>
    /\ UNCHANGED <<envVars, mountRoot, dirs, mtab, pending, unmounts, printOnly, header, path,
                   lockFd, preMounted, preStat, helper, elapsed, sleeps, printed>>

ModStep(p) ==
    \/ FromFile(p) \/ FromXar(p) \/ PrintPath(p) \/ BeginMount(p)
    \/ LockAndMkdir_UserExists(p) \/ LockAndMkdir_UserMkdir(p) \/ LockAndMkdir_UserChown(p)
    \/ Lock_directory(p)
    \/ LockAndMkdir_MountExists(p) \/ LockAndMkdir_MountMkdir(p)
    \/ LockAndMkdir_MountChown(p)
    \/ Mod_PreCheck(p) \/ Mod_Spawn(p) \/ HelperRun(p) \/ Mod_Wait(p)
    \/ Mod_Poll(p) \/ Mod_SleepStep(p) \/ Lock_touch(p)

\* one invocation that takes each step with either orchestrator
NextEquiv == Step(1) \/ ModStep(1) \/ KernelAttach \/ Unmount
SpecEquiv == InitFaults /\ [][NextEquiv]_vars

------------------------------------------------------------------------------
(* `xarfuse mount --print-only`: header parsing and path resolution alone, over a
   wider range of headers, root modes, seeds and namespace handles *)

StrictDir == 16384 + 1021          \* S_IFDIR | 0o1775
SetgidDir == 16384 + 2047          \* S_IFDIR | 0o3777

\* what fs::metadata may report for a candidate root
ModeSamples == {NoEnt, PlainDir, StrictDir, StickyDir, SetgidDir}
ResolveRoots == {DEFAULT_MOUNT_ROOTS[i] : i \in 1..Len(DEFAULT_MOUNT_ROOTS)}
                    \cup {<<"/", "xar">>}
ResolveModeMaps == [ResolveRoots -> ModeSamples]

\* XAR_MOUNT_SEED: unset, "", "abc", "foo/bar"
ResolveSeeds == { <<>>, << <<>> >>, << <<"a", "b", "c">> >>,
                  << <<"f", "o", "o", "/", "b", "a", "r">> >> }
\* /proc/self/ns/mnt: not statable, or its inode
ResolveInos == { <<>>, << 4026 >> }
\* UUID of the header: "abc" and an absolute path
ResolveUuids == { Uuid, <<"/", "e">> }

ResolveArchives ==
    { [exists |-> TRUE, lines |-> HeaderLines, toml_ok |-> TRUE,
       header |-> [offset |-> 4096, uuid |-> u, mount_root |-> r]] :
         u \in ResolveUuids, r \in { <<>>, << <<"/", "xar">> >> } }

\* header texts: up to MaxLines lines of 10 bytes, each a #xar_stop line, another
\* line or a line that is not UTF-8; the OFFSET field holds the position after one
\* of the lines or the usual 4096
MaxLines == 3
LineKinds == {[stop |-> FALSE, utf8 |-> TRUE, len |-> 10],
              [stop |-> TRUE, utf8 |-> TRUE, len |-> 10],
              [stop |-> FALSE, utf8 |-> FALSE, len |-> 10]}
LineSeqs == UNION {[1..n -> LineKinds] : n \in 0..MaxLines}
ParseArchives ==
    { [exists |-> TRUE, lines |-> l, toml_ok |-> t,
       header |-> [offset |-> o, uuid |-> Uuid, mount_root |-> <<>>]] :
         l \in LineSeqs, t \in BOOLEAN, o \in {10, 20, 30, 4096} }

InitResolve ==
    /\ \/ StartWith(ResolveArchives, ResolveModeMaps, ResolveSeeds, ResolveInos, Umasks)
       \/ StartWith(ParseArchives, ModeMaps, Seeds, NsInos, Umasks)
    /\ platform = "linux"
    /\ fs0 = FreshWorld
    /\ printOnly = [p \in Procs |-> TRUE]
    /\ faulty = FALSE
NextResolve == FromFile(1) \/ FindMount(1) \/ PrintPath(1)
SpecResolve == InitResolve /\ [][NextResolve]_vars

------------------------------------------------------------------------------
(* Vocabulary of the properties *)

Has(p, op) == \E i \in 1..Len(ops[p]) : ops[p][i] = op
\* index of the first occurrence of op in the invocation's operations, 0 if none
First(p, op) == IF Has(p, op) THEN CHOOSE i \in 1..Len(ops[p]) :
                                      /\ ops[p][i] = op
                                      /\ \A j \in 1..(i - 1) : ops[p][j] # op
                ELSE 0
LastOp(p) == IF ops[p] = <<>> THEN "none" ELSE ops[p][Len(ops[p])]
Polled(p) == Has(p, "poll_yes") \/ Has(p, "poll_no")
\* some MountState query of the invocation answered true
SawMounted(p) == preMounted[p] = "yes" \/ Has(p, "poll_yes")
Done(p) == pc[p] = "done"
Failed(p) == Done(p) /\ result[p].tag = "err"
Confirmed(p) == Done(p) /\ result[p] = Ok /\ ~printOnly[p]
TimedOut(p) == Done(p) /\ result[p] = Err("timeout", 0)
HelperSucceeded(p) == helper[p].state = "exited" /\ Success(helper[p].status)

------------------------------------------------------------------------------
(* C1 *)

\* C1 as claimed: when the pre-spawn MountState query reports mounted, the helper
\* is never spawned by the invocation and the invocation reaches Confirmed (lock
\* touched, success returned): it cannot end otherwise.
C1_AlreadyMountedConfirms ==
    \A p \in Procs : preMounted[p] = "yes" =>
        /\ helper[p].spawned = 0
        /\ Done(p) => (result[p] = Ok /\ touches[p] = 1)

\* C1 amended: when the pre-spawn query reports mounted, the helper is never
\* spawned by the invocation, which goes directly to the poll loop; it reaches
\* Confirmed when a poll reports mounted and the touch succeeds, and otherwise
\* ends with the poll's timeout or the touch's I/O error.
C1_ShortCircuit ==
    \A p \in Procs : preMounted[p] = "yes" =>
        /\ helper[p].spawned = 0
        /\ helper[p].state = "none"
        /\ ~Has(p, "spawn") /\ ~Has(p, "wait")
        /\ pc[p] \in {"poll", "sleep", "touch", "done"}
        /\ Done(p) => result[p] \in {Ok, Err("timeout", 0), Err("io", 5)}
        /\ (Done(p) /\ Has(p, "poll_yes")) => result[p] \in {Ok, Err("io", 5)}
        /\ result[p] = Ok => (touches[p] = 1 /\ LastOp(p) = "touch")

\* an invocation found the path mounted, spawned nothing and was confirmed
C1_Witness ==
    \E p \in Procs : /\ preMounted[p] = "yes"
                     /\ Confirmed(p)
                     /\ touches[p] = 1
                     /\ helper[p].spawned = 0

------------------------------------------------------------------------------
(* C2 *)

\* C2 as claimed: whatever the interleaving of the invocations of one mount path,
\* at most one helper mount is attached to the path, and every invocation that
\* returned success observed the path as mounted.
C2_OneLiveMount ==
    /\ Len(mtab) + pending <= 1
    /\ \A p \in Procs : Confirmed(p) => Has(p, "poll_yes")

------------------------------------------------------------------------------
(* C3 *)

\* C3 as claimed: an invocation none of whose MountState queries reported mounted
\* never touches the lock and never returns success; once its helper has exited
\* successfully it ends in Failed with the timeout error only, and the timeout
\* error comes only after the helper's successful exit.
C3_NeverMountedTimesOut ==
    \A p \in Procs : (~printOnly[p] /\ ~SawMounted(p)) =>
        /\ touches[p] = 0
        /\ result[p] # Ok
        /\ pc[p] # "touch"
        /\ (Done(p) /\ HelperSucceeded(p)) => TimedOut(p)
        /\ TimedOut(p) => (HelperSucceeded(p) /\ Has(p, "wait"))

\* C3 amended: an invocation none of whose MountState queries reported mounted
\* never touches the lock and never returns success; after its helper's
\* successful exit it ends in Failed, with the timeout error when wait returned
\* the helper's status and with wait's own I/O error, before any poll, when the
\* status could not be collected; the timeout error comes only after the helper's
\* successful exit.
C3_NeverMountedNeverConfirmed ==
    \A p \in Procs : (~printOnly[p] /\ ~SawMounted(p)) =>
        /\ touches[p] = 0
        /\ result[p] # Ok
        /\ pc[p] # "touch"
        /\ (Done(p) /\ HelperSucceeded(p)) =>
              /\ Failed(p)
              /\ Has(p, "wait") => TimedOut(p)
              /\ ~Has(p, "wait") =>
                    (result[p] = Err("io", 10) /\ ~Polled(p) /\ LastOp(p) = "spawn")
        /\ TimedOut(p) => (HelperSucceeded(p) /\ Has(p, "wait"))

\* an invocation whose helper exited 0 never saw the mount and timed out; another,
\* whose helper exited 0 too, ended on the error of wait
C3_Witness ==
    \E p, q \in Procs : /\ ~SawMounted(p)
                        /\ HelperSucceeded(p)
                        /\ TimedOut(p)
                        /\ touches[p] = 0
                        /\ ~SawMounted(q)
                        /\ HelperSucceeded(q)
                        /\ result[q] = Err("io", 10)

------------------------------------------------------------------------------
(* C4 *)

\* C4 as claimed: the timeout error is raised after more than 9 s and no later
\* than 9 s plus one poll interval of 100 microseconds, and the loop never sleeps
\* once it has observed elapsed > 9 s.
C4_TimeoutWindow ==
    \A p \in Procs :
        /\ TimedOut(p) => (elapsed[p] > Timeout /\ elapsed[p] <= Timeout + Sleep)
        /\ sleeps[p].late = 0

\* C4 amended: the timeout error is raised only once elapsed > 9 s, at the first
\* poll that observes it, one sleep after the last check that saw elapsed <= 9 s;
\* that sleep lasts at least 100 microseconds and may last longer, so the error
\* comes within 9 s + 100 microseconds only when the last sleep was exact.  The
\* loop never fails while elapsed <= 9 s and never sleeps once it has observed
\* elapsed > 9 s.
C4_TimeoutAfterDeadline ==
    \A p \in Procs :
        /\ TimedOut(p) => /\ elapsed[p] > Timeout
                          /\ elapsed[p] - sleeps[p].last <= Timeout
                          /\ sleeps[p].last >= Sleep
                          /\ sleeps[p].last = Sleep => elapsed[p] <= Timeout + Sleep
        /\ pc[p] = "sleep" => elapsed[p] <= Timeout
        /\ sleeps[p].late = 0

\* the loop saw elapsed = 9 s exactly, slept once more for 100 microseconds and
\* failed at 9 s + 100 microseconds
C4_Witness ==
    \E p \in Procs : /\ TimedOut(p)
                     /\ elapsed[p] = Timeout + Sleep
                     /\ sleeps[p].last = Sleep

------------------------------------------------------------------------------
(* C5 *)

\* C5 as claimed: once the spawned helper has exited with a non-zero status or on
\* a signal and mount has returned from its wait, mount has ended in Failed with
\* an error carrying that code or signal number, has never polled and has not
\* touched the lock.
C5_HelperFailureFatal ==
    \A p \in Procs :
        (helper[p].state = "exited" /\ ~Success(helper[p].status) /\ pc[p] # "wait") =>
            /\ Failed(p)
            /\ result[p] = IF helper[p].status.code # <<>>
                           THEN Err("helper_exit", helper[p].status.code[1])
                           ELSE Err("helper_signal", helper[p].status.signal[1])
            /\ ~Polled(p)
            /\ touches[p] = 0

\* C5 amended: once the helper has exited with a non-zero status or on a signal
\* and mount has returned from its wait, mount has ended in Failed without ever
\* polling or touching the lock; its error carries the exit code or the signal
\* number when wait returned the status, and is wait's own I/O error when the
\* status could not be collected.
C5_HelperFailureEndsMount ==
    \A p \in Procs :
        (helper[p].state = "exited" /\ ~Success(helper[p].status) /\ pc[p] # "wait") =>
            /\ Failed(p)
            /\ ~Polled(p)
            /\ touches[p] = 0
            /\ Has(p, "wait") =>
                  /\ result[p] = IF helper[p].status.code # <<>>
                                 THEN Err("helper_exit", helper[p].status.code[1])
                                 ELSE Err("helper_signal", helper[p].status.signal[1])
                  /\ LastOp(p) = "wait"
            /\ ~Has(p, "wait") => (result[p] = Err("io", 10) /\ LastOp(p) = "spawn")

\* one invocation failed on signal 9; another, whose helper exited with code 1,
\* on the error of wait
C5_Witness ==
    \E p, q \in Procs : /\ result[p] = Err("helper_signal", 9)
                        /\ result[q] = Err("io", 10)
                        /\ helper[q].status = Exited(1)
                        /\ Done(p) /\ Done(q)

------------------------------------------------------------------------------
(* C6 *)

\* C6: an invocation run with the print-only flag creates no directory, opens no
\* lockfile, spawns no helper and touches no lock, whether path resolution
\* succeeds or fails; when every invocation is print-only the directories and the
\* lockfile stay as they were and no mount is added.
C6_PrintOnlyNoSideEffects ==
    /\ \A p \in Procs : printOnly[p] =>
          /\ \A i \in 1..Len(ops[p]) : ops[p][i] = "print"
          /\ ~lockFd[p]
          /\ helper[p] = NoHelper
          /\ touches[p] = 0
          /\ Done(p) => (result[p] = Ok <=> printed[p] = <<path[p]>>)
    /\ (\A p \in Procs : printOnly[p]) =>
          /\ dirs = fs0.dirs
          /\ lockfile = fs0.lockfile
          /\ pending = 0
          /\ Len(mtab) <= Len(fs0.mtab)

\* a print-only invocation printed its path while nothing exists on disk
C6_Witness ==
    \E p \in Procs : /\ printOnly[p]
                     /\ Done(p)
                     /\ printed[p] = <<path[p]>> /\ path[p] # NoPath
                     /\ ~dirs["user"].exists
                     /\ ~lockfile.exists

------------------------------------------------------------------------------
(* C7 *)

\* C7: the lock is touched only right after a MountState poll returned true; a
\* successful return of mount has exactly one touch before it, and an invocation
\* that failed (directory, lock, helper, timeout) has touched nothing.
C7_HeartbeatAfterConfirmation ==
    /\ \A p \in Procs :
          /\ touches[p] <= 1
          /\ touches[p] = 1 => /\ Len(ops[p]) >= 2
                               /\ ops[p][Len(ops[p])] = "touch"
                               /\ ops[p][Len(ops[p]) - 1] = "poll_yes"
          /\ Has(p, "touch") <=> touches[p] = 1
          /\ Confirmed(p) => touches[p] = 1
          /\ Failed(p) => touches[p] = 0
    /\ lockfile.mtime = Cardinality({p \in Procs : touches[p] = 1})

\* a confirmed invocation with its single touch
C7_Witness ==
    \E p \in Procs : Confirmed(p) /\ touches[p] = 1 /\ lockfile.mtime >= 1

------------------------------------------------------------------------------
(* C8 *)

\* C8: the lockfile is opened before the invocation creates the mount directory
\* and before it spawns the helper, and the descriptor stays open from then on.
C8_LockBeforeMountDir ==
    \A p \in Procs :
        /\ Has(p, "mkdir_mount") => (Has(p, "open_lock")
                                     /\ First(p, "open_lock") < First(p, "mkdir_mount"))
        /\ Has(p, "spawn") => (Has(p, "open_lock")
                               /\ First(p, "open_lock") < First(p, "spawn"))
        /\ pc[p] \in {"mount_exists", "mount_mkdir", "mount_chown", "precheck",
                      "spawn", "wait", "poll", "sleep", "touch"} => lockFd[p]
        /\ Has(p, "open_lock") <=> lockFd[p]

\* an invocation that made the mount directory and spawned the helper has ended
\* with the descriptor still open
C8_Witness ==
    \E p \in Procs : /\ Has(p, "mkdir_mount") /\ Has(p, "spawn")
                     /\ Done(p) /\ lockFd[p]

------------------------------------------------------------------------------
(* C9 *)

\* C9 as claimed: the user directory and the mount directory are both prepared
\* before the lock is acquired.
C9_DirsBeforeLock ==
    \A p \in Procs : lockFd[p] => (dirs["user"].exists /\ dirs["mount"].exists)

\* rank of an operation in the order of Xar::mount
Rank(op) == CASE op = "mkdir_user" -> 1 [] op = "chown_user" -> 2
              [] op = "open_lock" -> 3
              [] op = "mkdir_mount" -> 4 [] op = "chown_mount" -> 5
              [] op = "check" -> 6 [] op = "spawn" -> 7 [] op = "wait" -> 8
              [] op = "poll_no" -> 9 [] op = "poll_yes" -> 10 [] op = "touch" -> 11
              [] OTHER -> 0

\* C9 amended: the user directory is prepared before the lock is acquired and the
\* mount directory after it; then come the check, the helper (skipped only when
\* the check found the path mounted), the poll and the touch, in this order with
\* nothing else skipped, and nothing runs after Confirmed or Failed.
C9_StateOrder ==
    \A p \in Procs :
        /\ \A i \in 1..(Len(ops[p]) - 1) :
              \/ Rank(ops[p][i]) < Rank(ops[p][i + 1])
              \/ ops[p][i] = "poll_no" /\ ops[p][i + 1] = "poll_no"
        /\ lockFd[p] => dirs["user"].exists
        /\ Has(p, "mkdir_mount") => Has(p, "open_lock")
        /\ Has(p, "check") => (lockFd[p] /\ dirs["mount"].exists)
        /\ Has(p, "spawn") => (Has(p, "check") /\ preMounted[p] = "no")
        /\ Has(p, "wait") => Has(p, "spawn")
        /\ Polled(p) => /\ Has(p, "check")
                        /\ preMounted[p] = "no" => (Has(p, "wait") /\ HelperSucceeded(p))
        /\ Has(p, "touch") => Has(p, "poll_yes")
        /\ Confirmed(p) => Has(p, "touch")
        /\ Done(p) => (result[p] # NoResult /\ ~ENABLED Step(p))
        /\ ~Done(p) => result[p] = NoResult

\* an invocation went through every state to Confirmed, the lock between the two
\* directories
C9_Witness ==
    \E p \in Procs :
        /\ ops[p] = <<"mkdir_user", "chown_user", "open_lock", "mkdir_mount",
                      "chown_mount", "check", "spawn", "wait", "poll_yes", "touch">>
        /\ Confirmed(p)

------------------------------------------------------------------------------
(* C10 *)

\* the filesystem types of the helper's mounts, per platform
Accepted(plat) == FuseTag(plat)

\* C10 as claimed: is_mounted answers true exactly when the type of the filesystem
\* backing the path is in the platform's accepted FUSE set, on every platform
\* (stated of the pre-spawn query of each invocation).
C10_IsMountedExact ==
    \A p \in Procs : preMounted[p] # "unknown" =>
        (preMounted[p] = "yes" <=> (preStat[p].ok /\ preStat[p].type \in Accepted(platform)))

------------------------------------------------------------------------------
(* C11 *)

\* C11: is_mounted never returns an error: when statfs fails (nonexistent or
\* inaccessible path, any other failure) the answer is Ok(false), so no invocation
\* ends in Failed with an error of the MountState query, and an invocation whose
\* pre-spawn query failed goes on as for an unmounted path.
C11_IsMountedNeverFails ==
    \A p \in Procs :
        /\ result[p].kind # "statfs"
        /\ ~Has(p, "poll_err")
        /\ Has(p, "check") => preMounted[p] \in {"yes", "no"}
        /\ (Has(p, "check") /\ ~preStat[p].ok) =>
              (preMounted[p] = "no" /\ pc[p] \in {"spawn", "wait", "poll", "sleep",
                                                  "touch", "done"})

\* the pre-spawn statfs failed and the invocation went on to spawn the helper
C11_Witness ==
    \E p \in Procs : /\ Has(p, "check") /\ ~preStat[p].ok
                     /\ preMounted[p] = "no"
                     /\ Has(p, "spawn")

------------------------------------------------------------------------------
(* Path resolution *)

\* find_mount has returned, with a path or an error
Resolving(p) == header[p] # NoHeader /\ pc[p] \notin {"start", "find"}
Resolved(p) == path[p] # NoPath
\* the root exists and its permission bits are exactly 01777
Exactly01777(root) ==
    /\ root \in DOMAIN fsmode
    /\ fsmode[root] >= 0
    /\ fsmode[root] % 4096 = 1023

\* C12: a root is returned only when its permission bits are exactly 01777; a root
\* named by the header is returned when its bits are exactly 01777 and otherwise
\* resolution fails whatever the default roots are; without one, the first default
\* root whose bits are exactly 01777 is returned and resolution fails when none is
C12_MountRootSelection ==
    \A p \in Procs :
        Resolving(p) =>
            LET mr == header[p].mount_root
                D == DEFAULT_MOUNT_ROOTS
            IN
            /\ Resolved(p) => Exactly01777(mountRoot[p])
            /\ ~Resolved(p) => (mountRoot[p] = NoPath /\ result[p].tag = "err"
                                /\ result[p].kind \in {"io", "config"})
            /\ mr # <<>> =>
                   /\ Resolved(p) <=> Exactly01777(mr[1])
                   /\ Resolved(p) => mountRoot[p] = mr[1]
            /\ mr = <<>> =>
                   /\ Resolved(p) <=> \E i \in 1..Len(D) : Exactly01777(D[i])
                   /\ Resolved(p) =>
                         \E i \in 1..Len(D) :
                             /\ mountRoot[p] = D[i]
                             /\ \A j \in 1..(i - 1) : ~Exactly01777(D[j])

\* the header names a root of mode 0o777, a default root is 01777, and resolution
\* has failed
C12_Witness ==
    \E p \in Procs :
        /\ Resolving(p)
        /\ header[p].mount_root # <<>>
        /\ ModeOf(fsmode, header[p].mount_root[1]) = PlainDir
        /\ \E i \in 1..Len(DEFAULT_MOUNT_ROOTS) : Exactly01777(DEFAULT_MOUNT_ROOTS[i])
        /\ ~Resolved(p)
        /\ result[p] = Err("config", 0)

\* the environment seed is set, not empty and without a path separator
SeedUsable == seed # <<>> /\ seed[1] # <<>> /\ \A i \in 1..Len(seed[1]) : seed[1][i] # "/"

\* C13: the directory name carries "-seed-{seed}" right after the uuid exactly when
\* the seed is present, not empty and without '/'; an empty seed or one with '/'
\* adds nothing, so no path separator follows a "-seed-" in the resolved path
C13_SeedSuffix ==
    \A p \in Procs :
        Resolved(p) =>
            LET P == path[p]
                u == header[p].uuid
                at == {i \in 1..Len(P) : P[i] = "-seed-"}
            IN
            /\ (at # {}) <=> SeedUsable
            /\ \A i \in at :
                  /\ i > Len(u)
                  /\ SubSeq(P, i - Len(u), i - 1) = u
                  /\ SubSeq(P, i + 1, i + Len(seed[1])) = seed[1]
                  /\ \A j \in i..Len(P) : P[j] # "/"
            /\ ~SeedUsable =>
                  \E k \in 1..Len(P) :
                      /\ SubSeq(P, k, k + Len(u) - 1) = u
                      /\ \/ k + Len(u) - 1 = Len(P)
                         \/ P[k + Len(u)] = "-ns-"

\* the seed "foo/bar" is set and the resolved path has no "-seed-" suffix
C13_Witness ==
    \E p \in Procs :
        /\ Resolved(p)
        /\ seed # <<>>
        /\ Contains(seed[1], "/")
        /\ ~Contains(path[p], "-seed-")
        /\ printed[p] = <<path[p]>>

\* C14: the resolved path is root/"uid-{euid}"/"{uuid}[-seed-{seed}][-ns-{inode}]",
\* a function of the root, the uuid, the namespace inode, the uid and the seed, the
\* -ns- suffix left out when the namespace handle cannot be stat'ed
C14_PathShape ==
    \A p \in Procs :
        Resolved(p) =>
            path[p] = mountRoot[p] \o <<"/", "uid-">> \o Dec(Euid) \o <<"/">>
                        \o header[p].uuid
                        \o (IF SeedUsable THEN <<"-seed-">> \o seed[1] ELSE <<>>)
                        \o (IF nsino # <<>> THEN <<"-ns-">> \o Dec(nsino[1]) ELSE <<>>)

------------------------------------------------------------------------------
(* Header parsing *)

\* the #xar_stop lines preceded by valid lines only, the first of them, and the byte
\* position right after it
Sentinels ==
    {i \in 1..Len(archive.lines) :
        /\ archive.lines[i].stop
        /\ \A j \in 1..i : archive.lines[j].utf8}
FirstSentinel == CHOOSE i \in Sentinels : \A j \in Sentinels : i <= j
AfterSentinel == BytesThrough(archive.lines, FirstSentinel)
AllUtf8 == \A i \in 1..Len(archive.lines) : archive.lines[i].utf8
Parsed(p) == header[p] # NoHeader

\* C16 as claimed: without a #xar_stop line from_file fails with the header-format
\* error, and on success the header's offset is the byte position right after the
\* #xar_stop line
C16_OffsetIsPosition ==
    \A p \in Procs :
        pc[p] # "start" =>
            /\ (archive.exists /\ Sentinels = {} /\ AllUtf8) =>
                   (~Parsed(p) /\ result[p] = Err("header", 0))
            /\ Parsed(p) => (Sentinels # {} /\ header[p].offset = AfterSentinel)

\* C16: without a #xar_stop line from_file fails (with the header-format error when
\* the lines are valid text, with the read error of the first line that is not);
\* on success the header is the one the text up to the first #xar_stop line
\* declares, its offset the declared OFFSET whatever the position after that line;
\* the scan ends on every finite input
C16_DeclaredOffset ==
    \A p \in Procs :
        /\ pc[p] = "start" => ENABLED FromFile(p)
        /\ pc[p] # "start" =>
            /\ (archive.exists /\ Sentinels = {}) =>
                   /\ ~Parsed(p)
                   /\ result[p] = IF AllUtf8 THEN Err("header", 0) ELSE Err("utf8", 0)
            /\ Parsed(p) =>
                   /\ Sentinels # {}
                   /\ archive.toml_ok
                   /\ header[p] = archive.header
            /\ (archive.exists /\ Sentinels # {} /\ archive.toml_ok) => Parsed(p)

\* a header parsed from a text whose #xar_stop line ends at byte 20 and is followed
\* by another line, declaring OFFSET 4096
C16_Witness ==
    \E p \in Procs :
        /\ Parsed(p)
        /\ Len(archive.lines) > FirstSentinel
        /\ AfterSentinel = 20
        /\ header[p].offset = 4096
        /\ pc[p] = "done"

------------------------------------------------------------------------------
(* C15 *)

\* the number of helper processes the invocation has started
Started(p) == Cardinality({i \in 1..Len(ops[p]) : ops[p][i] = "spawn"})
\* the invocation's call of spawn() failed: it ended on an I/O error right after
\* the pre-spawn check
SpawnFailed(p) ==
    Failed(p) /\ result[p].kind = "io" /\ LastOp(p) = "check" /\ helper[p].state = "none"

\* what C15 says of the helper's arguments and of the wait before the poll
HelperArgsAndWait(p) ==
    /\ Started(p) = 1 =>
          /\ preMounted[p] = "no"
          /\ helper[p].args =
                << <<"-o", "offset=">> \o Dec(header[p].offset)
                       \o <<",", "timeout=", "8", "7", "0">>,
                   ArchivePath,
                   path[p] >>
    /\ (Started(p) = 1 /\ (Polled(p) \/ pc[p] \in {"poll", "sleep", "touch"})) =>
          /\ helper[p].state = "exited"
          /\ Has(p, "wait")
          /\ \A i \in 1..Len(ops[p]) :
                ops[p][i] \in {"poll_yes", "poll_no", "poll_err"} => First(p, "wait") < i

\* C15 as claimed: an invocation whose pre-spawn check answered "not mounted"
\* spawns the helper exactly once, no invocation spawns a second helper whatever
\* the helper's status or the poll's outcome, the helper is given
\* -ooffset=<header.offset>,timeout=870, the archive path and the mount path, and
\* the poll starts only after wait has returned
C15_SpawnExactlyOnce ==
    \A p \in Procs :
        /\ Started(p) = helper[p].spawned
        /\ Started(p) <= 1
        /\ preMounted[p] = "yes" => Started(p) = 0
        /\ (preMounted[p] = "no" /\ pc[p] # "spawn") => Started(p) = 1
        /\ HelperArgsAndWait(p)

\* C15 amended: an invocation whose pre-spawn check answered "not mounted" calls
\* spawn() once: the call starts the one helper of the invocation, or it fails and
\* the invocation ends in Failed with that I/O error and no helper; no invocation
\* spawns a second helper whatever the helper's status or the poll's outcome; the
\* helper is given -ooffset=<header.offset>,timeout=870, the archive path and the
\* mount path; the poll starts only after wait has returned
C15_SpawnOnce ==
    \A p \in Procs :
        /\ Started(p) = helper[p].spawned
        /\ Started(p) <= 1
        /\ preMounted[p] = "yes" => Started(p) = 0
        /\ (preMounted[p] = "no" /\ pc[p] # "spawn") =>
              (Started(p) = 1 \/ (Started(p) = 0 /\ SpawnFailed(p)))
        /\ SpawnFailed(p) => (preMounted[p] = "no" /\ ~Polled(p) /\ touches[p] = 0)
        /\ HelperArgsAndWait(p)

\* one invocation ended on the timeout after its one helper, the other on the
\* failure of spawn() with no helper
C15_Witness ==
    \E p, q \in Procs :
        /\ TimedOut(p) /\ helper[p].spawned = 1 /\ Has(p, "wait")
        /\ preMounted[q] = "no" /\ SpawnFailed(q) /\ Started(q) = 0

------------------------------------------------------------------------------
(* C17 *)

DirNames == {"user", "mount"}
Times(p, op) == Cardinality({i \in 1..Len(ops[p]) : ops[p][i] = op})

\* directories exist, are made and are chowned as C17 says: a directory that
\* existed before the invocations keeps its mode and owner and is never made
\* again; a directory is made at most once per invocation and the chown follows
\* the mkdir at once; whatever an invocation has made or opened (directories,
\* lockfile) exists from then on, also after the invocation has failed
LeftAloneAndKept ==
    /\ \A d \in DirNames :
          /\ fs0.dirs[d].exists => dirs[d] = fs0.dirs[d]
          /\ dirs[d].exists <=>
                (fs0.dirs[d].exists \/ \E p \in Procs : Has(p, "mkdir_" \o d))
          /\ \A p \in Procs :
                /\ Times(p, "mkdir_" \o d) <= 1
                /\ Times(p, "chown_" \o d) <= 1
                /\ Has(p, "mkdir_" \o d) => (~fs0.dirs[d].exists /\ dirs[d].exists)
                /\ Has(p, "chown_" \o d) =>
                      /\ Has(p, "mkdir_" \o d)
                      /\ First(p, "chown_" \o d) = First(p, "mkdir_" \o d) + 1
                      /\ dirs[d].chowned
    /\ fs0.lockfile.exists => lockfile.exists
    /\ \A p \in Procs : Has(p, "open_lock") => lockfile.exists

\* C17 as claimed: pre-existing directories are left alone, nothing made is
\* removed, and a directory made by an invocation has mode rwxr-xr-x
C17_NoRepairNoRollback ==
    /\ LeftAloneAndKept
    /\ \A d \in DirNames, p \in Procs : Has(p, "mkdir_" \o d) => dirs[d].mode = DirMode

\* C17 amended: pre-existing directories are left alone (a mkdir attempted on one
\* whose metadata could not be read fails and changes nothing), nothing made is
\* removed, and a directory made by an invocation has the bits of rwxr-xr-x that
\* the process umask allows
C17_NoRepairNoRollbackUmask ==
    /\ LeftAloneAndKept
    /\ \A d \in DirNames, p \in Procs :
          Has(p, "mkdir_" \o d) => dirs[d].mode = ApplyUmask(DirMode, umask)

\* under umask 0o077 an invocation found the user directory of another owner, made
\* the mount directory (rwx------) and the lockfile, and failed on the helper or
\* the timeout: the user directory is as it was, the mount directory and the
\* lockfile are still there
C17_Witness ==
    \E p \in Procs :
        /\ Failed(p)
        /\ result[p].kind \in {"helper_exit", "helper_signal", "timeout"}
        /\ umask = 63
        /\ fs0.dirs["user"] = ForeignDir
        /\ dirs["user"] = ForeignDir
        /\ ~Has(p, "mkdir_user")
        /\ Has(p, "mkdir_mount") /\ Has(p, "chown_mount")
        /\ dirs["mount"] = [exists |-> TRUE, mode |-> 448, chowned |-> TRUE]
        /\ lockfile.exists

\* C18: when two invocations prepare the same absent directory together, neither
\* fails with an I/O error (mkdir on a directory the other has just made), the
\* directory exists afterwards and one of them has made it
C18_ConcurrentCreateSafe ==
    \A d \in DirNames :
        /\ \A p \in Procs : result[p] # Err("io", 17)
        /\ Cardinality({p \in Procs : Has(p, "mkdir_" \o d)}) <= 1
        /\ (\E p \in Procs : Has(p, "mkdir_" \o d)) => dirs[d].exists

------------------------------------------------------------------------------
(* C19 *)

\* C19: when the helper exits and time advances, the invocation ends, Confirmed
\* or Failed (or with the path printed), whatever the mount table does
C19_Termination == <>(Done(1) /\ result[1].tag \in {"ok", "err"})

\* an invocation whose helper succeeded polled, slept twice for 100 microseconds
\* and once past the deadline, and ended on the timeout
C19_Witness ==
    \E p \in Procs :
        /\ TimedOut(p)
        /\ HelperSucceeded(p)
        /\ sleeps[p].short = 2
        /\ elapsed[p] > Timeout
        /\ Times(p, "poll_no") >= 4

------------------------------------------------------------------------------
(* C20 *)

\* C20: in every state an invocation can be in, a step of Xar::mount of mount.rs
\* and a step of Xar::mount of mount/mod.rs are the same step: the same operation on
\* the directories, the lockfile and the helper, the same answer taken from
\* MountState, the same next step and the same outcome
C20_SameSteps == [][Step(1) <=> ModStep(1)]_vars

\* the invocation went from a fresh mount root to Confirmed: both user and mount
\* directory made, lockfile "lockfile.{mount-dir-name}" opened in the user
\* directory, helper spawned, mount seen by a poll after a sleep, lock touched
C20_Witness ==
    /\ Confirmed(1)
    /\ ops[1] = <<"mkdir_user", "chown_user", "open_lock", "mkdir_mount", "chown_mount",
                  "check", "spawn", "wait", "poll_no", "poll_yes", "touch">>
    /\ lockfile.path = Parent(path[1])[1] \o <<"/", "lockfile.">> \o FileName(path[1])[1]

====
